---- MODULE Spec2Model ----
(***************************************************************************)
(* Bus boarding sequence generator (boarding_sequence.py, class            *)
(* BusBoarding).  Strings are sequences of one-character strings, a        *)
(* booking record (a Python dict) is an object on a heap, and a list of    *)
(* bookings is a sequence of references into that heap.                    *)
(*                                                                         *)
(* Four specifications share the variables:                                *)
(*   SpecSeat   parse_seat on every label up to MaxLabelLen characters     *)
(*   SpecFile   parse_booking_data / process_file on small input files     *)
(*   Spec       generate_boarding_sequence on lists of booking records     *)
(*   SpecReuse  generate_boarding_sequence called twice over one heap      *)
(***************************************************************************)
EXTENDS Integers, Sequences, FiniteSets, TLC

VARIABLES
    pc,               \* position of the caller: which call has returned
    seat,             \* parse_seat: the argument
    parsed,           \* parse_seat: what the call returned or raised
    lines,            \* the input file, as file.readlines() gives it
    outcome,          \* parse_booking_data / process_file: return or raise
    written,          \* content of output_file, NotWritten while there is none
    heap,             \* the booking dicts: reference -> fields
    bookings,         \* the caller's list of bookings (references)
    sorted_bookings   \* the list generate_boarding_sequence returned

vars == <<pc, seat, parsed, lines, outcome, written, heap, bookings, sorted_bookings>>

\* ------------------------------------------------------------------ bounds

\* longest seat label SpecSeat enumerates
MaxLabelLen == 4
\* most data lines after the header in a SpecFile input file
MaxLines == 2
\* longest list of bookings handed to generate_boarding_sequence
MaxLen == 3
\* booking ids are drawn from 1..MaxId
MaxId == 3
\* max_distance values are drawn from 0..MaxDist
MaxDist == 1

\* ------------------------------------------------------------- characters

LowerLetters == <<"a","b","c","d","e","f","g","h","i","j","k","l","m",
                  "n","o","p","q","r","s","t","u","v","w","x","y","z">>
UpperLetters == <<"A","B","C","D","E","F","G","H","I","J","K","L","M",
                  "N","O","P","Q","R","S","T","U","V","W","X","Y","Z">>
Digits == <<"0","1","2","3","4","5","6","7","8","9">>

Range(f) == {f[i] : i \in DOMAIN f}

\* the characters str.strip() removes
Whitespace == {" ", "\t", "\n", "\r"}

LowerSet == Range(LowerLetters)
UpperSet == Range(UpperLetters)
DigitSet == Range(Digits)

\* [A-Z] and \d of the pattern
IsUpperLetter(c) == c \in UpperSet
IsDigit(c) == c \in DigitSet

\* str.upper() on one character
UpperOf == [c \in LowerSet |-> UpperLetters[CHOOSE i \in DOMAIN LowerLetters : LowerLetters[i] = c]]
UpperChar(c) == IF c \in LowerSet THEN UpperOf[c] ELSE c

\* str.upper()
Upper(s) == [i \in 1..Len(s) |-> UpperChar(s[i])]

\* str.strip(): cut the leading and the trailing whitespace
Strip(s) ==
    IF \A i \in 1..Len(s) : s[i] \in Whitespace THEN <<>>
    ELSE SubSeq(s,
                CHOOSE i \in 1..Len(s) :
                    s[i] \notin Whitespace /\ \A j \in 1..(i - 1) : s[j] \in Whitespace,
                CHOOSE i \in 1..Len(s) :
                    s[i] \notin Whitespace /\ \A j \in (i + 1)..Len(s) : s[j] \in Whitespace)

ValueOf == [c \in DigitSet |-> (CHOOSE i \in DOMAIN Digits : Digits[i] = c) - 1]
DigitValue(c) == ValueOf[c]

\* value of a run of decimal digits
RECURSIVE DecimalValue(_)
DecimalValue(ds) ==
    IF ds = <<>> THEN 0
    ELSE 10 * DecimalValue(SubSeq(ds, 1, Len(ds) - 1)) + DigitValue(ds[Len(ds)])

\* what a call gives back: a value, or an exception
Returned(v) == [raised |-> "none", value |-> v]
ValueError == [raised |-> "ValueError", value |-> <<>>]
NotCalled == [raised |-> "not called", value |-> <<>>]

\* int(text) on an already stripped text of letters, digits and spaces
IntOf(text) ==
    IF text # <<>> /\ \A i \in 1..Len(text) : IsDigit(text[i])
    THEN Returned(DecimalValue(text))
    ELSE ValueError

\* ------------------------------------------------------------- parse_seat

\* seat.strip() alone, the letter case left as it came
NormaliseStripOnly(s) == Strip(s)
\* seat.strip().upper()
Normalise(s) == Upper(Strip(s))

\* re.match(r'([A-Z])(\d+)', s): anchored at the start only; \d+ is greedy
ReMatch(s) ==
    IF Len(s) >= 2 /\ IsUpperLetter(s[1]) /\ IsDigit(s[2])
    THEN LET stop == CHOOSE k \in 2..Len(s) :
                        /\ \A j \in 2..k : IsDigit(s[j])
                        /\ (k = Len(s) \/ ~IsDigit(s[k + 1]))
         IN  [matched |-> TRUE, group1 |-> s[1], group2 |-> SubSeq(s, 2, stop)]
    ELSE [matched |-> FALSE, group1 |-> "", group2 |-> <<>>]

ParseSeat(label) ==
    LET m == ReMatch(Normalise(label))
    IN  IF m.matched
        THEN Returned(<<m.group1, DecimalValue(m.group2)>>)
        ELSE ValueError

\* the labels SpecSeat tries: every string over SeatChars up to MaxLabelLen
SeatChars == {"a", "A", "B", "0", "1", "2", " "}
Labels == UNION {[1..n -> SeatChars] : n \in 0..MaxLabelLen}

InitSeat ==
    /\ seat \in Labels
    /\ pc = "idle"
    /\ parsed = NotCalled
    /\ outcome = NotCalled
    /\ written = <<>>
    /\ lines = <<>>
    /\ heap = <<>>
    /\ bookings = <<>>
    /\ sorted_bookings = <<>>

CallParseSeat ==
    /\ pc = "idle"
    /\ parsed' = ParseSeat(seat)
    /\ pc' = "parse_seat returned"
    /\ UNCHANGED <<seat, lines, outcome, written, heap, bookings, sorted_bookings>>

NextSeat == CallParseSeat

SpecSeat == InitSeat /\ [][NextSeat]_vars

\* --------------------------------------------- generate_boarding_sequence

\* the 'sequence' entry of a dict that has no such key yet; the numbers the
\* code assigns start at 1
NoSequence == 0

\* the seats of a booking whose furthest seat has number d
SeatsFor(d) == << <<"A", Digits[d + 1]>> >>

\* a booking dict as parse_booking_data and the tests build it
Booking(id, seats, dist) ==
    [booking_id |-> id, seats |-> seats, max_distance |-> dist, sequence |-> NoSequence]

\* a key without the minus sign: nearest seats first
SortKeyAscending(rec) == <<rec.max_distance, rec.booking_id>>
\* a key without the tie-break on the booking id
SortKeyDistanceOnly(rec) == <<-rec.max_distance, 0>>
\* key=lambda x: (-x['max_distance'], x['booking_id'])
SortKey(rec) == <<-rec.max_distance, rec.booking_id>>

\* Python's order on two-element tuples
TupleLess(a, b) == a[1] < b[1] \/ (a[1] = b[1] /\ a[2] < b[2])

\* x placed in front of the elements of equal key: what an unstable sort
\* may do
InsertBeforeEqual(h, s, x) ==
    LET k == Cardinality({i \in 1..Len(s) : TupleLess(SortKey(h[s[i]]), SortKey(h[x]))})
    IN  SubSeq(s, 1, k) \o <<x>> \o SubSeq(s, k + 1, Len(s))
\* x placed into the sorted list s behind every element whose key is not
\* greater: sorted() is stable, equal keys keep their input order
Insert(h, s, x) ==
    LET k == Cardinality({i \in 1..Len(s) : ~TupleLess(SortKey(h[x]), SortKey(h[s[i]]))})
    IN  SubSeq(s, 1, k) \o <<x>> \o SubSeq(s, k + 1, Len(s))

\* sorted(bookings, key=...): a new list, the elements taken left to right
RECURSIVE Sorted(_, _)
Sorted(h, l) ==
    IF l = <<>> THEN <<>>
    ELSE Insert(h, Sorted(h, SubSeq(l, 1, Len(l) - 1)), l[Len(l)])

\* enumerate() without start=1: the numbers begin at 0
AddSequenceNumbersFromZero(h, s) ==
    [r \in DOMAIN h |->
        IF \E i \in 1..Len(s) : s[i] = r
        THEN [h[r] EXCEPT !.sequence =
                (CHOOSE i \in 1..Len(s) :
                    s[i] = r /\ \A j \in 1..Len(s) : s[j] = r => j <= i) - 1]
        ELSE h[r]]
\* for seq, booking in enumerate(sorted_bookings, start=1):
\*     booking['sequence'] = seq
\* the dict is written in place; were it listed twice, the last write stays
AddSequenceNumbers(h, s) ==
    [r \in DOMAIN h |->
        IF \E i \in 1..Len(s) : s[i] = r
        THEN [h[r] EXCEPT !.sequence =
                CHOOSE i \in 1..Len(s) :
                    s[i] = r /\ \A j \in 1..Len(s) : s[j] = r => j <= i]
        ELSE h[r]]

\* bookings.sort(key=...) in place of sorted(): the argument list itself is
\* put in order and returned
GenerateInPlace(h, l) ==
    [bookings |-> Sorted(h, l),
     sorted_bookings |-> Sorted(h, l),
     heap |-> AddSequenceNumbers(h, Sorted(h, l))]
\* the call: the argument list as the call leaves it, the returned list, and
\* the dicts after the call
GenerateBoardingSequence(h, l) ==
    [bookings |-> l,
     sorted_bookings |-> Sorted(h, l),
     heap |-> AddSequenceNumbers(h, Sorted(h, l))]

\* the caller deletes the 'sequence' key of the listed dicts
StripSequence(h, l) ==
    [r \in DOMAIN h |->
        IF r \in Range(l) THEN [h[r] EXCEPT !.sequence = NoSequence] ELSE h[r]]

BookingIds == 1..MaxId
Distances == 0..MaxDist

\* n fresh booking dicts, none sequenced yet
Heaps(n) ==
    {[r \in 1..n |-> Booking(k[r][1], SeatsFor(k[r][2]), k[r][2])] :
        k \in [1..n -> BookingIds \X Distances]}

\* the caller holds a list of n distinct booking dicts
Init ==
    /\ pc = "idle"
    /\ \E n \in 0..MaxLen :
        /\ heap \in Heaps(n)
        /\ bookings = [i \in 1..n |-> i]
    /\ sorted_bookings = <<>>
    /\ seat = <<>>
    /\ parsed = NotCalled
    /\ lines = <<>>
    /\ outcome = NotCalled
    /\ written = <<>>

\* result = bus.generate_boarding_sequence(bookings)
CallGenerate ==
    /\ pc = "idle"
    /\ LET g == GenerateBoardingSequence(heap, bookings)
       IN  /\ heap' = g.heap
           /\ bookings' = g.bookings
           /\ sorted_bookings' = g.sorted_bookings
    /\ pc' = "returned"
    /\ UNCHANGED <<seat, parsed, lines, outcome, written>>

\* the caller strips the sequence numbers off the result and passes the
\* result list to generate_boarding_sequence again
CallOnOwnOutput ==
    /\ pc = "returned"
    /\ LET g == GenerateBoardingSequence(StripSequence(heap, sorted_bookings),
                                         sorted_bookings)
       IN  /\ heap' = g.heap
           /\ bookings' = g.bookings
           /\ sorted_bookings' = g.sorted_bookings
    /\ pc' = "returned again"
    /\ UNCHANGED <<seat, parsed, lines, outcome, written>>

Next == CallGenerate \/ CallOnOwnOutput

Spec == Init /\ [][Next]_vars

\* ------------------------------- generate_boarding_sequence, called twice

\* lists of distinct dicts of the heap h
ListsOver(h) ==
    {l \in UNION {[1..n -> DOMAIN h] : n \in 0..Len(h)} :
        \A i, j \in 1..Len(l) : i # j => l[i] # l[j]}

\* the caller holds n booking dicts and a list of the first k of them
InitReuse ==
    /\ pc = "idle"
    /\ \E n \in 1..MaxLen :
        /\ heap \in Heaps(n)
        /\ \E k \in 0..n : bookings = [i \in 1..k |-> i]
    /\ sorted_bookings = <<>>
    /\ seat = <<>>
    /\ parsed = NotCalled
    /\ lines = <<>>
    /\ outcome = NotCalled
    /\ written = <<>>

FirstCall ==
    /\ pc = "idle"
    /\ LET g == GenerateBoardingSequence(heap, bookings)
       IN  /\ heap' = g.heap
           /\ bookings' = g.bookings
           /\ sorted_bookings' = g.sorted_bookings
    /\ pc' = "first returned"
    /\ UNCHANGED <<seat, parsed, lines, outcome, written>>

\* the caller puts dicts of the same heap into another list
BuildAnotherList ==
    /\ pc = "first returned"
    /\ bookings' \in ListsOver(heap)
    /\ pc' = "second list"
    /\ UNCHANGED <<heap, sorted_bookings, seat, parsed, lines, outcome, written>>

SecondCall ==
    /\ pc = "second list"
    /\ LET g == GenerateBoardingSequence(heap, bookings)
       IN  /\ heap' = g.heap
           /\ bookings' = g.bookings
           /\ sorted_bookings' = g.sorted_bookings
    /\ pc' = "second returned"
    /\ UNCHANGED <<seat, parsed, lines, outcome, written>>

NextReuse == FirstCall \/ BuildAnotherList \/ SecondCall

SpecReuse == InitReuse /\ [][NextReuse]_vars

\* --------------------------------------------------- parse_booking_data

\* _, seat_number = self.parse_seat(seat); return seat_number
GetSeatDistance(label) ==
    IF ParseSeat(label).raised = "none"
    THEN Returned(ParseSeat(label).value[2])
    ELSE ValueError

\* min() over a non-empty run of integers
RECURSIVE MinOf(_)
MinOf(ns) ==
    IF Len(ns) = 1 THEN ns[1]
    ELSE LET m == MinOf(SubSeq(ns, 1, Len(ns) - 1))
         IN  IF ns[Len(ns)] < m THEN ns[Len(ns)] ELSE m
\* max() over a non-empty run of integers: the largest seen so far is kept
RECURSIVE MaxOf(_)
MaxOf(ns) ==
    IF Len(ns) = 1 THEN ns[1]
    ELSE LET m == MaxOf(SubSeq(ns, 1, Len(ns) - 1))
         IN  IF ns[Len(ns)] > m THEN ns[Len(ns)] ELSE m

\* max(self.get_seat_distance(seat) for seat in seats): the first seat that
\* does not parse raises, and so does max() of no seats at all
GetBookingMaxDistance(seats) ==
    IF seats = <<>> \/ \E i \in 1..Len(seats) : GetSeatDistance(seats[i]).raised # "none"
    THEN ValueError
    ELSE Returned(MaxOf([i \in 1..Len(seats) |-> GetSeatDistance(seats[i]).value]))

\* line.split(',')
RECURSIVE SplitComma(_)
SplitComma(s) ==
    IF \E k \in 1..Len(s) : s[k] = ","
    THEN LET k == CHOOSE k \in 1..Len(s) : s[k] = "," /\ \A j \in 1..(k - 1) : s[j] # ","
         IN  <<SubSeq(s, 1, k - 1)>> \o SplitComma(SubSeq(s, k + 1, Len(s)))
    ELSE <<s>>

\* ','.join(fields)
RECURSIVE JoinComma(_)
JoinComma(fields) ==
    IF fields = <<>> THEN <<>>
    ELSE IF Len(fields) = 1 THEN fields[1]
    ELSE fields[1] \o <<",">> \o JoinComma(Tail(fields))

\* one pass of the loop over the data lines: the line is skipped, or it
\* raises, or it gives the booking dict that is appended
ParseLine(raw) ==
    LET line  == Strip(raw)
        parts == [k \in 1..Len(SplitComma(line)) |-> Strip(SplitComma(line)[k])]
        seats == Tail(parts)
    IN  IF line = <<>> THEN [kind |-> "skip"]
        ELSE IF Len(parts) < 2 THEN [kind |-> "skip"]
        ELSE IF IntOf(parts[1]).raised # "none" THEN [kind |-> "raise"]
        ELSE IF GetBookingMaxDistance(seats).raised # "none" THEN [kind |-> "raise"]
        ELSE [kind |-> "booking",
              booking |-> Booking(IntOf(parts[1]).value, seats,
                                  GetBookingMaxDistance(seats).value)]

\* for i in range(1, len(lines)): lines[0], the header, is never read; the
\* dicts built from lines[i..] are appended to acc in line order
RECURSIVE ParseFrom(_, _, _)
ParseFrom(ls, i, acc) ==
    IF i > Len(ls) THEN Returned(acc)
    ELSE LET p == ParseLine(ls[i])
         IN  IF p.kind = "raise" THEN ValueError
             ELSE IF p.kind = "skip" THEN ParseFrom(ls, i + 1, acc)
             ELSE ParseFrom(ls, i + 1, Append(acc, p.booking))

ParseBookingData(ls) == ParseFrom(ls, 2, <<>>)

\* ---------------------------------------------- display and process_file

\* the detailed table: a header, a rule of 60 dashes, one row per booking
DisplaySequence(h, l) ==
    << <<"Seq", "Booking_ID", "Seats", "Max_Distance">>, <<"-", 60>> >> \o
    [i \in 1..Len(l) |->
        <<h[l[i]].sequence, h[l[i]].booking_id, JoinComma(h[l[i]].seats),
          h[l[i]].max_distance>>]

\* the simple table: a header, a rule of 20 dashes, one row per booking
DisplaySimpleSequence(h, l) ==
    << <<"Seq", "Booking_ID">>, <<"-", 20>> >> \o
    [i \in 1..Len(l) |-> <<h[l[i]].sequence, h[l[i]].booking_id>>]

\* output_file as long as nothing was written to it
NotWritten == <<>>

\* the input files SpecFile tries: a header and up to MaxLines data lines,
\* each a blank line or a booking id field followed by seat fields
Header == <<"B", "o", "o", "k", "i", "n", "g", "_", "i", "d", ",", "S", "e", "a", "t", "s", "\n">>
IdFields == {<<"1">>, <<"2">>, <<"x">>}
SeatFieldLists ==
    {<<>>,
     << <<"A", "1">> >>,
     << <<" ", "b", "2">> >>,
     << <<"A", "1">>, <<"B", "1", "0">> >>,
     << <<"B", "1", "0">>, <<"a", "1">> >>,
     << <<"1", "2">> >>,
     << <<"A", "1", "B">> >>,
     << <<>> >>}
DataLines ==
    {JoinComma(<<id>> \o seats) \o <<"\n">> : id \in IdFields, seats \in SeatFieldLists}
        \cup {<<"\n">>, <<" ", "\n">>}
Files ==
    {<<>>} \cup {<<Header>> \o data : data \in UNION {[1..n -> DataLines] : n \in 0..MaxLines}}

InitFile ==
    /\ pc = "idle"
    /\ lines \in Files
    /\ outcome = NotCalled
    /\ written = NotWritten
    /\ heap = <<>>
    /\ bookings = <<>>
    /\ sorted_bookings = <<>>
    /\ seat = <<>>
    /\ parsed = NotCalled

\* bookings = bus.parse_booking_data(temp_file)
CallParseBookingData ==
    /\ pc = "idle"
    /\ \E p \in {ParseBookingData(lines)} :
        /\ heap' = p.value
        /\ bookings' = [i \in 1..Len(p.value) |-> i]
        /\ outcome' = IF p.raised = "none"
                      THEN Returned([i \in 1..Len(p.value) |-> i])
                      ELSE p
    /\ pc' = "parse_booking_data returned"
    /\ UNCHANGED <<lines, written, sorted_bookings, seat, parsed>>

\* process_file once parse_booking_data has returned the dicts in p: the
\* sequence is generated, rendered, written to output_file if one is named,
\* and returned
ProcessParsed(p, output_file, simple_output) ==
    \E g \in {GenerateBoardingSequence(p.value, [i \in 1..Len(p.value) |-> i])} :
    \E result \in {IF simple_output
                   THEN DisplaySimpleSequence(g.heap, g.sorted_bookings)
                   ELSE DisplaySequence(g.heap, g.sorted_bookings)} :
        /\ heap' = g.heap
        /\ bookings' = g.bookings
        /\ sorted_bookings' = g.sorted_bookings
        /\ written' = IF output_file # "" THEN result ELSE NotWritten
        /\ outcome' = Returned(result)

\* result = bus.process_file(input_file, output_file, simple_output); an
\* exception of parse_booking_data leaves process_file at once
CallProcessFile ==
    /\ pc = "idle"
    /\ \E output_file \in {"", "out.txt"}, simple_output \in BOOLEAN :
       \E p \in {ParseBookingData(lines)} :
            IF p.raised # "none"
            THEN /\ outcome' = p
                 /\ UNCHANGED <<written, heap, bookings, sorted_bookings>>
            ELSE ProcessParsed(p, output_file, simple_output)
    /\ pc' = "process_file returned"
    /\ UNCHANGED <<lines, seat, parsed>>

NextFile == CallParseBookingData \/ CallProcessFile

SpecFile == InitFile /\ [][NextFile]_vars

\* ---------------------------------------------------- claims on parse_seat

IsLetter(c) == c \in LowerSet \cup UpperSet

\* label[i] is the letter and label[i+1..j] the digit run of a label that is
\* whitespace, one letter, one or more digits, whitespace, and nothing else
ShapedAt(label, i, j) ==
    /\ i < j
    /\ \A k \in 1..(i - 1) : label[k] \in Whitespace
    /\ IsLetter(label[i])
    /\ \A k \in (i + 1)..j : IsDigit(label[k])
    /\ \A k \in (j + 1)..Len(label) : label[k] \in Whitespace

WellFormed(label) ==
    \E i \in 1..Len(label), j \in 1..Len(label) : ShapedAt(label, i, j)

LowerOf == [c \in UpperSet |-> LowerLetters[CHOOSE i \in DOMAIN UpperLetters : UpperLetters[i] = c]]
LowerChar(c) == IF c \in UpperSet THEN LowerOf[c] ELSE c

Pads == {<<>>, <<" ">>, <<"\t", " ">>}

\* labels that differ from core in letter case or surrounding whitespace only
Variants(core) ==
    {pre \o recased \o post :
        pre \in Pads, post \in Pads,
        recased \in {[k \in 1..Len(core) |-> UpperChar(core[k])],
                     [k \in 1..Len(core) |-> LowerChar(core[k])]}}

\* C4: parse_seat raises ValueError for every label that, trimmed and
\* uppercased, is not exactly one letter followed by digits (^[A-Z]\d+$):
\* a missing letter, missing digits or characters after the digit run.
StmtC4 ==
    (pc = "parse_seat returned" /\ ~WellFormed(seat)) => parsed = ValueError

\* C7: for a label made of one letter and a digit run, in either letter case
\* and with optional surrounding whitespace, parse_seat returns (the letter
\* in upper case, the digit run as an integer), and every label that differs
\* from it in letter case or surrounding whitespace only parses to the same
\* pair.
InvC7 ==
    pc = "parse_seat returned" =>
        \A i \in 1..Len(seat), j \in 1..Len(seat) :
            ShapedAt(seat, i, j) =>
                /\ parsed = Returned(<<UpperChar(seat[i]),
                                        DecimalValue(SubSeq(seat, i + 1, j))>>)
                /\ \A t \in Variants(SubSeq(seat, i, j)) : ParseSeat(t) = parsed

\* a lower-case, padded, two-digit label has been parsed
WitC7 ==
    /\ pc = "parse_seat returned"
    /\ seat = <<" ", "a", "1", "2">>
    /\ parsed = Returned(<<"A", 12>>)

\* ------------------------------------ claims on generate_boarding_sequence

HasReturned == pc \in {"returned", "returned again"}

UniqueIds(h, l) ==
    \A i, j \in 1..Len(l) : i # j => h[l[i]].booking_id # h[l[j]].booking_id

IdsOf(h, l) == [i \in 1..Len(l) |-> h[l[i]].booking_id]

\* every order of the elements of l
Reorderings(l) ==
    IF l = <<>> THEN {<<>>}
    ELSE {[i \in 1..Len(l) |-> l[f[i]]] : f \in Permutations(1..Len(l))}

\* C1: in the returned list, for bookings with unique ids, whenever A stands
\* before B either A.max_distance > B.max_distance, or the distances are
\* equal and A.booking_id < B.booking_id.
InvC1 ==
    (HasReturned /\ UniqueIds(heap, bookings)) =>
        \A i, j \in 1..Len(sorted_bookings) :
            i < j =>
                LET A == heap[sorted_bookings[i]]
                    B == heap[sorted_bookings[j]]
                IN  \/ A.max_distance > B.max_distance
                    \/ A.max_distance = B.max_distance /\ A.booking_id < B.booking_id

\* three bookings with unique ids came back reordered, a distance tie and a
\* distance difference among them
WitC1 ==
    /\ pc = "returned"
    /\ Len(sorted_bookings) = 3
    /\ UniqueIds(heap, bookings)
    /\ sorted_bookings # bookings
    /\ \E i, j \in 1..3 :
        i # j /\ heap[bookings[i]].max_distance = heap[bookings[j]].max_distance
    /\ \E i, j \in 1..3 :
        heap[bookings[i]].max_distance # heap[bookings[j]].max_distance

\* C2: the returned list has the length of the input, is a permutation of
\* it, the booking at 0-based position i carries sequence number i+1, so the
\* numbers are exactly 1..N; an empty input gives an empty list.
InvC2 ==
    HasReturned =>
        /\ Len(sorted_bookings) = Len(bookings)
        /\ sorted_bookings \in Reorderings(bookings)
        /\ \A i \in 1..Len(sorted_bookings) : heap[sorted_bookings[i]].sequence = i
        /\ {heap[r].sequence : r \in Range(sorted_bookings)} = 1..Len(bookings)
        /\ (bookings = <<>> => sorted_bookings = <<>>)

\* a list of at least two bookings came back in another order, numbered
WitC2 ==
    /\ pc = "returned"
    /\ Len(bookings) >= 2
    /\ sorted_bookings # bookings
    /\ heap[sorted_bookings[1]].sequence = 1

\* C3: for bookings with pairwise distinct ids, every order of the same
\* bookings in the input list gives the same order of booking ids and the
\* same sequence number for every booking.
InvC3 ==
    (pc = "returned" /\ UniqueIds(heap, bookings)) =>
        \A l \in Reorderings(bookings) :
            LET g == GenerateBoardingSequence(StripSequence(heap, bookings), l)
            IN  /\ IdsOf(g.heap, g.sorted_bookings) = IdsOf(heap, sorted_bookings)
                /\ \A r \in Range(bookings) : g.heap[r].sequence = heap[r].sequence

\* three bookings with unique ids, two of them at the same distance, have
\* been sequenced
WitC3 ==
    /\ pc = "returned"
    /\ Len(bookings) = 3
    /\ UniqueIds(heap, bookings)
    /\ \E i, j \in 1..3 :
        i # j /\ heap[bookings[i]].max_distance = heap[bookings[j]].max_distance

\* C8: called on its own output with the sequence numbers stripped,
\* generate_boarding_sequence returns the bookings in the identical order
\* and gives every booking the sequence number of the first run.
InvC8 ==
    [][(pc = "returned" /\ pc' = "returned again") =>
            /\ sorted_bookings' = sorted_bookings
            /\ \A r \in Range(sorted_bookings) :
                heap'[r].sequence = heap[r].sequence]_vars

\* the second run is over; the first had reordered its input, which holds two
\* dicts with the same booking id at the same distance
WitC8 ==
    /\ pc = "returned again"
    /\ Len(sorted_bookings) >= 2
    /\ sorted_bookings # [i \in 1..Len(sorted_bookings) |-> i]
    /\ \E i, j \in 1..Len(sorted_bookings) :
        i # j /\ SortKey(heap[sorted_bookings[i]]) = SortKey(heap[sorted_bookings[j]])

\* C9: once generate_boarding_sequence has given a booking record a sequence
\* number, no later operation changes it, a further call on another list
\* that holds the same record included.
StmtC9 ==
    [][\A r \in DOMAIN heap :
            heap[r].sequence # NoSequence => heap'[r].sequence = heap[r].sequence]_vars

\* C10: the call leaves the caller's list as it was, same length and same
\* element order, and leaves booking_id, seats and max_distance of every
\* booking unchanged; only the returned list is in sorted order.
InvC10 ==
    [][(pc = "idle" /\ pc' = "returned") =>
            /\ bookings' = bookings
            /\ DOMAIN heap' = DOMAIN heap
            /\ \A r \in DOMAIN heap :
                /\ heap'[r].booking_id = heap[r].booking_id
                /\ heap'[r].seats = heap[r].seats
                /\ heap'[r].max_distance = heap[r].max_distance]_vars

\* a call has returned a list in another order than the caller's list
WitC10 ==
    /\ pc = "returned"
    /\ Len(bookings) >= 2
    /\ sorted_bookings # bookings
    /\ bookings = [i \in 1..Len(bookings) |-> i]

\* ------------------------------- claims on ingestion and booking distance

\* the seat number of a well-formed label: its digit run as an integer
SeatNumber(label) ==
    LET ij == CHOOSE ij \in (1..Len(label)) \X (1..Len(label)) :
                    ShapedAt(label, ij[1], ij[2])
    IN  DecimalValue(SubSeq(label, ij[1] + 1, ij[2]))

\* the seats with the row letter of seat k replaced by f[k]
Relettered(seats, f) ==
    [k \in 1..Len(seats) |->
        [m \in 1..Len(seats[k]) |->
            IF IsLetter(seats[k][m]) THEN f[k] ELSE seats[k][m]]]

\* a non-blank data line with no seat field, a booking id that is no
\* integer, or a seat label that is not a letter followed by digits
BadLine(raw) ==
    LET parts == SplitComma(Strip(raw))
    IN  /\ Strip(raw) # <<>>
        /\ \/ Len(parts) < 2
           \/ IntOf(Strip(parts[1])).raised # "none"
           \/ \E k \in 2..Len(parts) : ~WellFormed(parts[k])

\* C5: if a non-blank data line has no seat field, a non-integer booking id
\* or an invalid seat label, process_file ends with an error for the whole
\* batch: no report is returned, no output file is written and no booking
\* is sequenced; the line is never skipped while the others are processed.
StmtC5 ==
    (pc = "process_file returned" /\ \E i \in 2..Len(lines) : BadLine(lines[i])) =>
        /\ outcome = ValueError
        /\ written = NotWritten
        /\ sorted_bookings = <<>>
        /\ \A r \in DOMAIN heap : heap[r].sequence = NoSequence

\* C6: for a booking with a non-empty list of valid seat labels,
\* get_booking_max_distance returns the largest of their seat numbers,
\* whatever the row letters and the order of the seats, and the max_distance
\* parse_booking_data stores for the booking is that value.
InvC6 ==
    pc \in {"parse_booking_data returned", "process_file returned"} =>
        \A r \in DOMAIN heap :
            LET seats == heap[r].seats
                dist  == heap[r].max_distance
            IN  (seats # <<>> /\ \A k \in 1..Len(seats) : WellFormed(seats[k])) =>
                    /\ \E k \in 1..Len(seats) : SeatNumber(seats[k]) = dist
                    /\ \A k \in 1..Len(seats) : SeatNumber(seats[k]) <= dist
                    /\ \A l \in Reorderings(seats) :
                        GetBookingMaxDistance(l) = Returned(dist)
                    /\ \A f \in [1..Len(seats) -> {"C", "q"}] :
                        GetBookingMaxDistance(Relettered(seats, f)) = Returned(dist)

\* parse_booking_data has stored the distance of a booking of two seats in
\* different rows, the further seat listed first
WitC6 ==
    /\ pc = "parse_booking_data returned"
    /\ \E r \in DOMAIN heap :
        /\ heap[r].seats = << <<"B", "1", "0">>, <<"a", "1">> >>
        /\ heap[r].max_distance = 10

====
